---------------------------- MODULE Spec2Model ----------------------------
(***************************************************************************)
(* A model of pytorch-cifar100 with the "Mono" auxiliary loss:             *)
(*   models/resnet.py  top_k_percent_one_side, top_k_percent_two_side,     *)
(*                     MonoBasicBlock, MonoSequential, MonoResNet          *)
(*   train.py          monotrain, eval_training, the __main__ epoch loop   *)
(*                                                                         *)
(* Numbers.  Signals and feature maps hold small integers.  A loss is an   *)
(* exact fraction <<num, den>> in lowest terms, counted in thousandths     *)
(* (the unit in which log(1 + exp(-|x|)) is tabulated).  A fraction k such *)
(* as 0.05 is the pair <<1, 20>>.                                          *)
(***************************************************************************)
EXTENDS Integers, Sequences, FiniteSets, TLC

VARIABLES
    \* ---- models/resnet.py: the two loss modules under direct call ----
    k,              \* top_k_percent_one_side.k, as <<numerator, denominator>>
    tieOrder,       \* how this build's torch.topk orders equal values
    activation,     \* first argument of the call, an (n, C) signal
    prediction,     \* second argument of the call, an (n, C) signal
    lossPc,         \* "ready" | "one" | "again" | "two"
    oneSide,        \* result of the last top_k_percent_one_side.forward
    oneSidePrev,    \* result of the call before it on the same input
    twoAB,          \* top_k_percent_two_side.forward(activation, prediction)
    twoBA,          \* top_k_percent_two_side.forward(prediction, activation)
    \* ---- models/resnet.py: parameters and inputs of a forward pass ----
    theta,          \* the parameter values (one number stands for all of them)
    training,       \* Module.training: set by net.train(), cleared by net.eval()
    clip_embeddings,\* the (n, EmbDim) external embedding of the batch
    \* ---- models/resnet.py: one MonoBasicBlock under direct call ----
    blk,            \* the block as __init__ built it
    blkStats,       \* running statistics of its three BatchNorm2d layers
    blkInput,       \* the (n, C, H, W) feature map given to forward
    blkDone,        \* which of the two modes have been called
    blkLoss,        \* result of forward(x, e, activations=False)
    blkInsp,        \* result of forward(x, e, activations=True)
    \* ---- models/resnet.py: one MonoResNet.forward, statement by statement ----
    num_block,      \* the number of blocks of each of the four stages
    images,         \* the (n, 3, H, W) batch given to forward
    netActivations, \* the argument activations of the call
    netPc,          \* 0 before conv1, s before stage s + 1, 5 after the head
    netOutput,      \* the local variable output
    netL,           \* the local variable l
    netStats,       \* running statistics: conv1's, then one tuple per stage
    netStages,      \* what each stage so far was given and returned
    \* ---- train.py: the run of __main__ ----
    args,           \* the parsed command line: mono, warm, resume, alpha
    settings,       \* conf.settings: EPOCH, MILESTONES, SAVE_EPOCH
    iter_per_epoch, \* len(cifar100_training_loader)
    folder,         \* whether most_recent_folder finds a folder of an earlier run
    files,          \* the weight files in the checkpoint folder, <<epoch, type>>
    pc,             \* the statement the run is at
    epoch,          \* the loop variable of __main__
    batch_index,    \* the loop variable of monotrain and train
    classification_loss, \* of the current batch, in thousandths
    auxLoss,        \* l of the current batch's forward pass
    backwardLoss,   \* the loss whose backward() was called in the current batch
    batchLog,       \* the calls made so far in the current batch, in order
    batchesStarted, \* the batches taken from the training loader so far
    optimizerSteps, \* the calls of optimizer.step() so far
    stepsIn,        \* the calls of optimizer.step() in each epoch
    warmupSteps,    \* the calls of warmup_scheduler.step() in each epoch
    schedulerSteps, \* the calls of train_scheduler.step(epoch), in order, each with
                    \* the optimizer steps its epoch had had before
    best_acc,       \* the local variable best_acc
    acc,            \* the accuracy eval_training returned last
    resume_epoch,   \* last_epoch(...) of a resumed run
    saved,          \* the weight files this run saved, <<epoch, type>>
    epochLog,       \* acc and best_acc after each evaluated epoch's eval_training
    \* ---- train.py: one eval_training of a Mono network ----
    testBatches,    \* what the test loader and the network give for each batch
    evalPc,         \* "begin" | "batch" | "report" | "return" | "done"
    batchNo,        \* the number of test batches taken so far
    evalActivations,\* the list activations: one concatenated signal per tap point
    evalPredictions,\* the list predictions, likewise
    correct,        \* the local variable correct
    evalReport,     \* per tap point, the confusion matrix at each of the cutoffs
    evalAcc         \* the value returned

lossVars == <<k, tieOrder, activation, prediction, lossPc, oneSide,
              oneSidePrev, twoAB, twoBA>>

paramVars == <<theta, training, clip_embeddings>>

blockVars == <<blk, blkStats, blkInput, blkDone, blkLoss, blkInsp>>

netVars == <<num_block, images, netActivations, netPc, netOutput, netL, netStats,
             netStages>>

trainVars == <<args, settings, iter_per_epoch, folder, files, pc, epoch,
               batch_index, classification_loss, auxLoss, backwardLoss, batchLog,
               batchesStarted, optimizerSteps, stepsIn, warmupSteps,
               schedulerSteps, best_acc, acc, resume_epoch, saved, epochLog>>

evalVars == <<testBatches, evalPc, batchNo, evalActivations, evalPredictions,
              correct, evalReport, evalAcc>>

vars == <<lossVars, paramVars, blockVars, netVars, trainVars, evalVars>>

-----------------------------------------------------------------------------
(* Arithmetic helpers *)

Abs(x) == IF x < 0 THEN -x ELSE x

Max(a, b) == IF a >= b THEN a ELSE b

Min(a, b) == IF a <= b THEN a ELSE b

RECURSIVE Gcd(_, _)
Gcd(a, b) == IF b = 0 THEN a ELSE Gcd(b, a % b)

\* The fraction num/den (den > 0) in lowest terms.
Rat(num, den) ==
    LET g == Gcd(Abs(num), den)
    IN  <<num \div g, den \div g>>

\* p + q, over the least common denominator
RatAdd(p, q) ==
    LET g == Gcd(p[2], q[2])
    IN  Rat(p[1] * (q[2] \div g) + q[1] * (p[2] \div g), (p[2] \div g) * q[2])

\* f itself; comparing it makes TLC tabulate a function given by a rule once,
\* instead of applying the rule at every use.
Tabulated(f) == IF f = f THEN f ELSE f

\* s[lo] + ... + s[hi], by halves
RECURSIVE SumRange(_, _, _)
SumRange(s, lo, hi) ==
    IF lo > hi
    THEN 0
    ELSE IF lo = hi
    THEN s[lo]
    ELSE SumRange(s, lo, (lo + hi) \div 2) + SumRange(s, ((lo + hi) \div 2) + 1, hi)

SumTo(s, n) == SumRange(s, 1, n)

SumSeq(s) == SumTo(s, Len(s))

-----------------------------------------------------------------------------
(* Bounds and input families of the loss modules *)

\* Batch sizes 1..MaxBatch are enumerated with every signal over Vals.
MaxBatch == 2

\* Larger batches, with signals built from the column patterns below.
WideBatches == {5, 20}

Channels == 1 .. 2

Vals == {0, 1, 2}

BatchSizes == (1 .. MaxBatch) \cup WideBatches

\* k: 0.05 is the program's (resnet.py:139); the others are exact in binary
\* floating point, so that int(k * n) is floor(k * n) as computed here; 3/2 is
\* outside (0, 1] and makes torch.topk raise for n >= 2.
KSet == {<<1, 20>>, <<1, 4>>, <<1, 2>>, <<3, 4>>, <<1, 1>>, <<3, 2>>}

TieOrders == {"low", "high"}

\* Column patterns for the wide batches: permutations of 0..n-1 (no ties)
\* and two patterns with ties.
WideColumns(n) ==
    {[i \in 1 .. n |-> (m * i + r) % n] : m \in {1, 3}, r \in {0, 2}}
        \cup {[i \in 1 .. n |-> i % 2], [i \in 1 .. n |-> 1]}

Signals(n) ==
    IF n <= MaxBatch
    THEN [1 .. n -> [Channels -> Vals]]
    ELSE {[i \in 1 .. n |-> [j \in Channels |-> IF j = 1 THEN c1[i] ELSE c2[i]]] :
              c1 \in WideColumns(n), c2 \in WideColumns(n)}

\* The second signal of a call, given the first: itself, its rows reversed,
\* its columns swapped, its values mirrored.
Related(sig) ==
    LET n == Len(sig)
    IN  {sig,
         [i \in 1 .. n |-> sig[n + 1 - i]],
         [i \in 1 .. n |-> [j \in Channels |-> sig[i][3 - j]]],
         [i \in 1 .. n |-> [j \in Channels |-> 2 - (sig[i][j] % 3)]]}

-----------------------------------------------------------------------------
(* models/resnet.py: top_k_percent_one_side and top_k_percent_two_side *)

NumCols(sig) == Len(sig[1])

Flatten(sig) ==
    Tabulated([e \in 1 .. Len(sig) * NumCols(sig) |->
                  sig[((e - 1) \div NumCols(sig)) + 1][((e - 1) % NumCols(sig)) + 1]])

\* top_k = int(self.k * num_elements)
TopK(kk, num_elements) == (kk[1] * num_elements) \div kk[2]

\* torch.topk leaves the order of equal values to the implementation.
TieBefore(i1, i2) == IF tieOrder = "low" THEN i1 < i2 ELSE i1 > i2

\* Mutant of Rank: the smallest values first (topk with largest=False).
RankSmallestFirst(target, j, i) ==
    Cardinality({i2 \in 1 .. Len(target) :
                    \/ target[i2][j] < target[i][j]
                    \/ target[i2][j] = target[i][j] /\ TieBefore(i2, i)})

\* The number of rows torch.topk places before row i in column j.
Rank(target, j, i) ==
    Cardinality({i2 \in 1 .. Len(target) :
                    \/ target[i2][j] > target[i][j]
                    \/ target[i2][j] = target[i][j] /\ TieBefore(i2, i)})

\* Mutant of TopkIndices: the rows of the first column's top_k largest values
\* taken for every column.
TopkIndicesFirstColumn(target, top_k) ==
    LET rank == Tabulated([i \in 1 .. Len(target) |-> Rank(target, 1, i)])
    IN  Tabulated([r \in 1 .. top_k |->
                      [j \in 1 .. NumCols(target) |->
                          CHOOSE i \in 1 .. Len(target) : rank[i] = r - 1]])

\* _, top_k_indices = torch.topk(target, top_k, dim=0): a (top_k, C) matrix,
\* column j holding the rows of the top_k largest values of column j.
TopkIndices(target, top_k) ==
    LET rank == Tabulated([j \in 1 .. NumCols(target) |->
                              [i \in 1 .. Len(target) |-> Rank(target, j, i)]])
    IN  Tabulated([r \in 1 .. top_k |->
                      [j \in 1 .. NumCols(target) |->
                          CHOOSE i \in 1 .. Len(target) : rank[j][i] = r - 1]])

ZerosLike(sig) == [i \in 1 .. Len(sig) |-> [j \in 1 .. NumCols(sig) |-> 0]]

\* tensor.scatter_(0, index, 1): tensor[index[r][j]][j] = 1
Scatter(tensor, index) ==
    Tabulated([i \in 1 .. Len(tensor) |->
                  [j \in 1 .. NumCols(tensor) |->
                      IF \E r \in 1 .. Len(index) : index[r][j] = i
                      THEN 1 ELSE tensor[i][j]]])

\* log(1 + exp(-a)) for a >= 0, in thousandths.
Log1pExpNeg(a) ==
    CASE a = 0 -> 693
      [] a = 1 -> 313
      [] a = 2 -> 127
      [] a = 3 -> 49
      [] a = 4 -> 18
      [] a = 5 -> 7
      [] a = 6 -> 2
      [] a = 7 -> 1
      [] OTHER -> 0

\* binary_cross_entropy_with_logits, one element, in thousandths:
\* max(x, 0) - x * y + log(1 + exp(-|x|))
BceWithLogits(x, y) == 1000 * (Max(x, 0) - x * y) + Log1pExpNeg(Abs(x))

\* The divisor of the weight in top_k_percent_one_side.forward.
WeightDivisor == 100

\* Mutant of WeightNum: the "+ 1" of the weight left out.
WeightNumNoOffset(kk, m) == m * (kk[2] - 2 * kk[1])

\* weight = (modified_target.flatten() * (1 / k - 2) + 1) / 100: the
\* numerators, over the common denominator WeightDen(kk)
WeightNum(kk, m) == m * (kk[2] - 2 * kk[1]) + kk[1]

WeightDen(kk) == WeightDivisor * kk[1]

\* nn.BCEWithLogitsLoss(weight=w)(input, target): the mean of w * bce
BCEWithLogitsLoss(weight, weightDen, input, target) ==
    Rat(SumSeq(Tabulated([e \in 1 .. Len(input) |->
                   weight[e] * BceWithLogits(input[e], target[e])])),
        weightDen * Len(input))

NoResult ==
    [raised |-> FALSE, mask |-> <<>>, weight |-> <<>>, loss |-> <<0, 1>>]

Raised ==
    [raised |-> TRUE, mask |-> <<>>, weight |-> <<>>, loss |-> <<0, 1>>]

\* top_k_percent_one_side.forward(output, target); torch.topk raises when
\* top_k exceeds the size of dimension 0, and BCEWithLogitsLoss raises when
\* output and target differ in shape.
OneSideForward(kk, output, target) ==
    LET num_elements == Len(target)
        top_k == TopK(kk, num_elements)
    IN  IF \/ top_k > num_elements
           \/ Len(output) # Len(target)
           \/ NumCols(output) # NumCols(target)
        THEN Raised
        ELSE LET top_k_indices == TopkIndices(target, top_k)
                 modified_target == Scatter(ZerosLike(target), top_k_indices)
                 flat == Flatten(modified_target)
                 weight == Tabulated([e \in 1 .. Len(flat) |-> WeightNum(kk, flat[e])])
             IN  [raised |-> FALSE,
                  mask |-> modified_target,
                  weight |-> weight,
                  loss |-> BCEWithLogitsLoss(weight, WeightDen(kk),
                                             Flatten(output), flat)]

NoLoss == [raised |-> FALSE, loss |-> <<0, 1>>]

\* self.topk(a, p) + self.topk(p, a), given the two terms
TwoSideSum(first, second) ==
    IF first.raised \/ second.raised
    THEN [raised |-> TRUE, loss |-> <<0, 1>>]
    ELSE [raised |-> FALSE, loss |-> RatAdd(first.loss, second.loss)]

\* Mutant of TwoSideForward: the second term repeats the first role assignment.
TwoSideFirstOnly(kk, act, pred) ==
    TwoSideSum(OneSideForward(kk, act, pred), OneSideForward(kk, act, pred))

\* top_k_percent_two_side.forward(activation, prediction)
TwoSideForward(kk, act, pred) ==
    TwoSideSum(OneSideForward(kk, act, pred), OneSideForward(kk, pred, act))

-----------------------------------------------------------------------------
(* models/resnet.py: tensors, layers and their parameters                   *)
(* A feature map is x[b][c][i][j]; a signal or an embedding is s[b][c].     *)

\* Scaled-down sizes: the embedding width (clipd=768 in the source) and the
\* channel widths (64, 128, 256, 512 in the source, divided by 64).
EmbDim == 2

ImageChannels == 3

StageWidths == <<1, 2, 4, 8>>

StageStrides == <<1, 2, 2, 2>>

\* BasicBlock.expansion
Expansion == 1

\* (C, H, W) of a feature map
Shape(x) == <<Len(x[1]), Len(x[1][1]), Len(x[1][1][1])>>

\* Parameter values: every parameter is a fixed function of theta, of the
\* layer that owns it and of its position.
ConvWeight(layer, co, ci, di, dj) == ((theta + 3 * layer + co + 2 * ci + di + 2 * dj) % 3) - 1

LinearWeight(layer, o, d) == ((theta + layer + o + 2 * d) % 3) - 1

LinearBias(layer, o) == (theta + layer + o) % 2

BnWeight(layer, c) == 1 + ((theta + layer + c) % 2)

BnBias(layer, c) == (theta * (layer + c)) % 2

\* residual_function_first_part_b, residual_function_second_part_b:
\* torch.zeros at construction (theta = 0), trained afterwards.
PartBias(layer, c) == (theta * (layer + c + 1)) % 3

\* Output size of a convolution along one spatial dimension.
ConvOutSize(size, kernel_size, stride, padding) ==
    ((size + 2 * padding - kernel_size) \div stride) + 1

\* The kernel rows (or columns) that meet the map, not the padding, for
\* output row (or column) o of a map with size rows (or columns).
KernelFrom(o, stride, padding) == Max(1, padding + 1 - (o - 1) * stride)

KernelTo(o, size, kernel_size, stride, padding) ==
    Min(kernel_size, size + padding - (o - 1) * stride)

\* nn.Conv2d(in, out, kernel_size, stride, padding, bias=False): the sum of
\* weight times input over the input channels and the kernel; the padding is
\* zero and adds nothing.
Conv2d(x, layer, out_channels, kernel_size, stride, padding) ==
    LET H == Len(x[1][1])
        W == Len(x[1][1][1])
        C == Len(x[1])
    IN  Tabulated(
          [b \in 1 .. Len(x) |->
            [co \in 1 .. out_channels |->
              [i \in 1 .. ConvOutSize(H, kernel_size, stride, padding) |->
                [j \in 1 .. ConvOutSize(W, kernel_size, stride, padding) |->
                  LET di0 == KernelFrom(i, stride, padding)
                      di1 == KernelTo(i, H, kernel_size, stride, padding)
                      dj0 == KernelFrom(j, stride, padding)
                      dj1 == KernelTo(j, W, kernel_size, stride, padding)
                  IN  SumRange([ci \in 1 .. C |->
                        SumRange([di \in di0 .. di1 |->
                          SumRange([dj \in dj0 .. dj1 |->
                                ConvWeight(layer, co, ci, di, dj)
                                    * x[b][ci][(i - 1) * stride + di - padding]
                                              [(j - 1) * stride + dj - padding]],
                              dj0, dj1)],
                            di0, di1)],
                          1, C)]]]])

\* The values of channel c, over the batch and both spatial dimensions.
ChannelValues(x, c) ==
    LET H == Len(x[1][1])
        W == Len(x[1][1][1])
    IN  Tabulated([e \in 1 .. Len(x) * H * W |->
            x[((e - 1) \div (H * W)) + 1][c][(((e - 1) % (H * W)) \div W) + 1][((e - 1) % W) + 1]])

\* Mean and variance of every channel of the batch, rounded down.
BatchMoments(x) ==
    Tabulated(
      [c \in 1 .. Len(x[1]) |->
        LET v == ChannelValues(x, c)
            m == SumSeq(v) \div Len(v)
        IN  [mean |-> m,
             var |-> SumTo([e \in 1 .. Len(v) |-> (v[e] - m) * (v[e] - m)], Len(v))
                         \div Len(v)]])

ISqrt(v) == CHOOSE r \in 0 .. v : r * r <= v /\ v < (r + 1) * (r + 1)

\* Running statistics of a fresh BatchNorm2d: mean 0, variance 1.
FreshStats(channels) == [c \in 1 .. channels |-> [mean |-> 0, var |-> 1]]

\* nn.BatchNorm2d, the output: each channel is normalised with the batch
\* statistics in training mode and with the running statistics in evaluation
\* mode.  Over integers: (x - mean) div (isqrt(var) + 1) * weight + bias.
BatchNorm2d(x, layer, stats) ==
    LET used == IF training THEN BatchMoments(x) ELSE stats
        std == Tabulated([c \in 1 .. Len(x[1]) |-> ISqrt(used[c].var) + 1])
    IN  Tabulated(
          [b \in 1 .. Len(x) |->
            [c \in 1 .. Len(x[1]) |->
              [i \in 1 .. Len(x[1][1]) |->
                [j \in 1 .. Len(x[1][1][1]) |->
                  ((x[b][c][i][j] - used[c].mean) \div std[c]) * BnWeight(layer, c)
                      + BnBias(layer, c)]]]])

\* nn.BatchNorm2d, the running statistics after the call: in training mode
\* they move towards the batch statistics (momentum 0.1), in evaluation mode
\* they stay.
BatchNorm2dStats(x, stats) ==
    IF training
    THEN LET batch == BatchMoments(x)
         IN  Tabulated([c \in 1 .. Len(x[1]) |->
                 [mean |-> (9 * stats[c].mean + batch[c].mean) \div 10,
                  var |-> (9 * stats[c].var + batch[c].var) \div 10]])
    ELSE stats

\* nn.ReLU
ReLU(x) ==
    Tabulated(
      [b \in 1 .. Len(x) |->
        [c \in 1 .. Len(x[1]) |->
          [i \in 1 .. Len(x[1][1]) |->
            [j \in 1 .. Len(x[1][1][1]) |-> Max(x[b][c][i][j], 0)]]]])

\* Whether x + y is defined: each of (C, H, W) is equal or 1 on one side.
Broadcastable(x, y) ==
    \A d \in 1 .. 3 : Shape(x)[d] = Shape(y)[d] \/ Shape(x)[d] = 1 \/ Shape(y)[d] = 1

\* x + y, elementwise, a dimension of size 1 repeated as needed
TensorAdd(x, y) ==
    LET sx == Shape(x)
        sy == Shape(y)
        Ix(d, n) == IF sx[d] = 1 THEN 1 ELSE n
        Iy(d, n) == IF sy[d] = 1 THEN 1 ELSE n
    IN  Tabulated(
          [b \in 1 .. Len(x) |->
            [c \in 1 .. Max(sx[1], sy[1]) |->
              [i \in 1 .. Max(sx[2], sy[2]) |->
                [j \in 1 .. Max(sx[3], sy[3]) |->
                  x[b][Ix(1, c)][Ix(2, i)][Ix(3, j)]
                      + y[b][Iy(1, c)][Iy(2, i)][Iy(3, j)]]]]])

\* x.flatten(start_dim=2).mean(dim=2) + b: the spatial mean of every channel
\* (rounded down) plus the per-channel bias
SpatialMeanPlus(x, layer) ==
    LET H == Len(x[1][1])
        W == Len(x[1][1][1])
    IN  Tabulated(
          [b \in 1 .. Len(x) |->
            [c \in 1 .. Len(x[1]) |->
              (SumTo([e \in 1 .. H * W |-> x[b][c][((e - 1) \div W) + 1][((e - 1) % W) + 1]],
                     H * W) \div (H * W))
                  + PartBias(layer, c)]])

\* nn.Linear(clipd, out)
Linear(e, layer, out_features) ==
    Tabulated(
      [b \in 1 .. Len(e) |->
        [o \in 1 .. out_features |->
          SumTo([d \in 1 .. Len(e[b]) |-> e[b][d] * LinearWeight(layer, o, d)], Len(e[b]))
              + LinearBias(layer, o)]])

-----------------------------------------------------------------------------
(* models/resnet.py: MonoBasicBlock *)

\* The fraction given to top_k_percent_two_side in MonoBasicBlock.__init__.
BlockK == <<1, 20>>

\* Mutant of NeedsProjection: "and" in place of "or".
NeedsProjectionBoth(in_channels, out_channels, stride) ==
    stride # 1 /\ in_channels # Expansion * out_channels

\* Whether __init__ replaces the empty shortcut by a 1x1 convolution.
NeedsProjection(in_channels, out_channels, stride) ==
    stride # 1 \/ in_channels # Expansion * out_channels

\* MonoBasicBlock.__init__(in_channels, out_channels, stride); id tells the
\* blocks of a network apart (each owns its parameters).
MonoBasicBlock(id, in_channels, out_channels, stride) ==
    [id |-> id,
     in_channels |-> in_channels,
     out_channels |-> out_channels,
     stride |-> stride,
     projection |-> NeedsProjection(in_channels, out_channels, stride)]

\* The parameters of layer sub of block b: 1 first conv, 2 first BatchNorm,
\* 3 second conv, 4 second BatchNorm, 5 shortcut conv, 6 shortcut BatchNorm,
\* 7 residual_feature_first_part, 8 residual_feature_whole_part.
LayerOf(b, sub) == 8 * b.id + sub

FreshBlockStats(b) ==
    <<FreshStats(b.out_channels), FreshStats(b.out_channels * Expansion),
      FreshStats(b.out_channels * Expansion)>>

\* self.residual_function_first_part(x)
FirstPart(b, x) == Conv2d(x, LayerOf(b, 1), b.out_channels, 3, b.stride, 1)

\* The input of the second BatchNorm2d of self.residual_function_second_part:
\* BatchNorm2d, ReLU and the second convolution applied to step1.
SecondConv(b, stats, step1) ==
    Conv2d(ReLU(BatchNorm2d(step1, LayerOf(b, 2), stats[1])),
           LayerOf(b, 3), b.out_channels * Expansion, 3, 1, 1)

\* The convolution of the projected shortcut.
ShortcutConv(b, x) == Conv2d(x, LayerOf(b, 5), b.out_channels * Expansion, 1, b.stride, 0)

\* self.loss(a, p) + self.loss(a2, p2)
LossSum(d1, d2) ==
    IF d1.raised \/ d2.raised
    THEN [raised |-> TRUE, loss |-> <<0, 1>>]
    ELSE [raised |-> FALSE, loss |-> RatAdd(d1.loss, d2.loss)]

\* The value returned when activations is true: the two [activation,
\* prediction] pairs.
InspectionPairs(b, step1, x, e) ==
    <<<<SpatialMeanPlus(step1, LayerOf(b, 1)), Linear(e, LayerOf(b, 7), b.out_channels)>>,
      <<SpatialMeanPlus(x, LayerOf(b, 3)),
        Linear(e, LayerOf(b, 8), b.out_channels * Expansion)>>>>

\* Mutant of LossModeLoss: the second divergence uses the first projector.
LossModeLossOneProjector(b, step1, x, e) ==
    LossSum(TwoSideForward(BlockK, SpatialMeanPlus(step1, LayerOf(b, 1)),
                           Linear(e, LayerOf(b, 7), b.out_channels)),
            TwoSideForward(BlockK, SpatialMeanPlus(x, LayerOf(b, 3)),
                           Linear(e, LayerOf(b, 7), b.out_channels * Expansion)))

\* The value returned when activations is false: the auxiliary loss.
LossModeLoss(b, step1, x, e) ==
    LossSum(TwoSideForward(BlockK, SpatialMeanPlus(step1, LayerOf(b, 1)),
                           Linear(e, LayerOf(b, 7), b.out_channels)),
            TwoSideForward(BlockK, SpatialMeanPlus(x, LayerOf(b, 3)),
                           Linear(e, LayerOf(b, 8), b.out_channels * Expansion)))

NoForward ==
    [raised |-> FALSE, fx |-> <<>>, aux |-> <<>>, residual |-> <<>>,
     shortcut |-> <<>>, stats |-> <<>>]

\* What forward returns, (fx, aux), with the two summands of line 143 and the
\* running statistics the three BatchNorm2d layers are left with.
BlockReturn(activations, fx, aux, residual, shortcut, after) ==
    [raised |-> IF activations THEN FALSE ELSE aux.raised,
     fx |-> fx,
     aux |-> aux,
     residual |-> residual,
     shortcut |-> shortcut,
     stats |-> after]

\* fx = nn.ReLU()(x) and the return statement of the mode, x being the sum.
BlockAfterSum(b, e, activations, step1, sum, residual, shortcut, after) ==
    BlockReturn(activations, ReLU(sum),
                IF activations
                THEN InspectionPairs(b, step1, sum, e)
                ELSE LossModeLoss(b, step1, sum, e),
                residual, shortcut, after)

\* x = residual + shortcut, which raises when the two shapes cannot be
\* broadcast.
BlockAdd(b, e, activations, step1, residual, shortcut, after) ==
    IF ~Broadcastable(residual, shortcut)
    THEN [raised |-> TRUE, fx |-> <<>>, aux |-> <<>>, residual |-> residual,
          shortcut |-> shortcut, stats |-> after]
    ELSE BlockAfterSum(b, e, activations, step1, TensorAdd(residual, shortcut),
                       residual, shortcut, after)

\* The last BatchNorm2d of the residual path and of a projected shortcut,
\* given the outputs of the convolutions before them.
BlockNorms(b, stats, x, e, activations, step1, conv2, convs) ==
    BlockAdd(b, e, activations, step1,
             BatchNorm2d(conv2, LayerOf(b, 4), stats[2]),
             IF b.projection THEN BatchNorm2d(convs, LayerOf(b, 6), stats[3]) ELSE x,
             <<BatchNorm2dStats(step1, stats[1]),
               BatchNorm2dStats(conv2, stats[2]),
               IF b.projection THEN BatchNorm2dStats(convs, stats[3]) ELSE stats[3]>>)

\* self.residual_function_second_part(step1) + self.shortcut(x), given step1
BlockAfterFirst(b, stats, x, e, activations, step1) ==
    BlockNorms(b, stats, x, e, activations, step1, SecondConv(b, stats, step1),
               IF b.projection THEN ShortcutConv(b, x) ELSE x)

\* MonoBasicBlock.forward(x, clip_embeddings, activations).  The loss raises
\* when a signal and its prediction differ in shape.
BlockForward(b, stats, x, e, activations) ==
    BlockAfterFirst(b, stats, x, e, activations, FirstPart(b, x))

-----------------------------------------------------------------------------
(* models/resnet.py: MonoSequential and MonoResNet *)

\* Number of classes (100 in the source).
NumClasses == 2

\* The blocks _make_layer puts in one MonoSequential: the first has the given
\* stride and takes self.in_channels, the others have stride 1 and take
\* out_channels * expansion.  firstId numbers the blocks.
MakeLayer(in_channels, out_channels, num_blocks, stride, firstId) ==
    [i \in 1 .. num_blocks |->
        MonoBasicBlock(firstId + i - 1,
                       IF i = 1 THEN in_channels ELSE out_channels * Expansion,
                       out_channels,
                       IF i = 1 THEN stride ELSE 1)]

\* self.in_channels after _make_layer
InChannelsAfter(in_channels, out_channels, num_blocks) ==
    IF num_blocks = 0 THEN in_channels ELSE out_channels * Expansion

\* self.in_channels when stage s is built: 64 at first (StageWidths[1] here).
RECURSIVE InChannelsBefore(_, _)
InChannelsBefore(nb, s) ==
    IF s = 1
    THEN StageWidths[1]
    ELSE InChannelsAfter(InChannelsBefore(nb, s - 1), StageWidths[s - 1], nb[s - 1])

\* Blocks built before stage s, plus one: the number of its first block.
RECURSIVE FirstId(_, _)
FirstId(nb, s) == IF s = 1 THEN 1 ELSE FirstId(nb, s - 1) + nb[s - 1]

\* conv2_x .. conv5_x as ResNet.__init__ builds them for num_block = nb
StageLayers(nb, s) ==
    MakeLayer(InChannelsBefore(nb, s), StageWidths[s], nb[s], StageStrides[s],
              FirstId(nb, s))

\* MonoSequential.forward before its loop: l = 0.0, or [] when activations
SeqStart(x, acts) ==
    [raised |-> FALSE, x |-> x, l |-> IF acts THEN <<>> ELSE <<0, 1>>,
     stats |-> <<>>, units |-> <<>>]

\* Mutant of SeqJoin: "l = ln" in place of "l += ln".
SeqJoinLastOnly(prev, r, acts) ==
    IF r.raised
    THEN [prev EXCEPT !.raised = TRUE]
    ELSE [raised |-> FALSE,
          x |-> r.fx,
          l |-> IF acts THEN r.aux ELSE r.aux.loss,
          stats |-> Append(prev.stats, r.stats),
          units |-> Append(prev.units, [x |-> prev.x, fx |-> r.fx, ln |-> r.aux])]

\* "x, ln = layer(...); l += ln", r being what the layer returned
SeqJoin(prev, r, acts) ==
    IF r.raised
    THEN [prev EXCEPT !.raised = TRUE]
    ELSE [raised |-> FALSE,
          x |-> r.fx,
          l |-> IF acts THEN prev.l \o r.aux ELSE RatAdd(prev.l, r.aux.loss),
          stats |-> Append(prev.stats, r.stats),
          units |-> Append(prev.units, [x |-> prev.x, fx |-> r.fx, ln |-> r.aux])]

\* One turn of the loop, on the state prev the turns before left.
SeqTurn(prev, layer, stats, e, acts) ==
    IF prev.raised
    THEN prev
    ELSE SeqJoin(prev, BlockForward(layer, stats, prev.x, e, acts), acts)

\* MonoSequential.forward after i turns of its loop: x, l, the running
\* statistics the called blocks are left with, and what each block was given
\* and returned.
RECURSIVE SeqAfter(_, _, _, _, _, _)
SeqAfter(layers, stats, x, e, acts, i) ==
    IF i = 0
    THEN SeqStart(x, acts)
    ELSE SeqTurn(SeqAfter(layers, stats, x, e, acts, i - 1), layers[i], stats[i], e, acts)

\* MonoSequential.forward(x, clip_embeddings, activations)
SeqForward(layers, stats, x, e, acts) == SeqAfter(layers, stats, x, e, acts, Len(layers))

\* self.conv1: Conv2d(3, 64, 3, padding=1), BatchNorm2d, ReLU (layers 1, 2)
Conv1(x, stats) ==
    ReLU(BatchNorm2d(Conv2d(x, 1, StageWidths[1], 3, 1, 1), 2, stats))

Conv1Stats(x, stats) == BatchNorm2dStats(Conv2d(x, 1, StageWidths[1], 3, 1, 1), stats)

\* avg_pool, view and fc (layer 3): the class logits
ClassLogits(x) ==
    LET H == Len(x[1][1])
        W == Len(x[1][1][1])
        pooled == Tabulated(
            [b \in 1 .. Len(x) |->
              [c \in 1 .. Len(x[1]) |->
                SumTo([t \in 1 .. H * W |-> x[b][c][((t - 1) \div W) + 1][((t - 1) % W) + 1]],
                      H * W) \div (H * W)]])
    IN  Linear(pooled, 3, NumClasses)

-----------------------------------------------------------------------------
(* The loss modules under direct call *)

\* The loss modules, not called directly.
LossIdle ==
    /\ k = BlockK
    /\ activation = <<>>
    /\ prediction = <<>>
    /\ lossPc = "off"
    /\ oneSide = NoResult
    /\ oneSidePrev = NoResult
    /\ twoAB = NoLoss
    /\ twoBA = NoLoss

\* No network parameters or inputs in play.
ParamIdle ==
    /\ theta = 0
    /\ training = TRUE
    /\ clip_embeddings = <<>>

\* No block called directly.
BlockIdle ==
    /\ blk = MonoBasicBlock(0, 1, 1, 1)
    /\ blkStats = <<>>
    /\ blkInput = <<>>
    /\ blkDone = {}
    /\ blkLoss = NoForward
    /\ blkInsp = NoForward

\* No network called.
NetIdle ==
    /\ num_block = <<0, 0, 0, 0>>
    /\ images = <<>>
    /\ netActivations = FALSE
    /\ netPc = 0
    /\ netOutput = <<>>
    /\ netL = <<0, 1>>
    /\ netStats = <<>>
    /\ netStages = <<>>

\* train.py not run.
TrainIdle ==
    /\ args = [mono |-> TRUE, warm |-> 1, resume |-> FALSE, alpha |-> <<3, 10>>]
    /\ settings = [EPOCH |-> 0, MILESTONES |-> <<1, 2>>, SAVE_EPOCH |-> 1]
    /\ iter_per_epoch = 1
    /\ folder = FALSE
    /\ files = {}
    /\ pc = "off"
    /\ epoch = 0
    /\ batch_index = 0
    /\ classification_loss = 0
    /\ auxLoss = <<0, 1>>
    /\ backwardLoss = <<0, 1>>
    /\ batchLog = <<>>
    /\ batchesStarted = 0
    /\ optimizerSteps = 0
    /\ stepsIn = <<>>
    /\ warmupSteps = <<>>
    /\ schedulerSteps = <<>>
    /\ best_acc = 0
    /\ acc = 0
    /\ resume_epoch = 0
    /\ saved = {}
    /\ epochLog = <<>>

\* eval_training not called on its own.
EvalIdle ==
    /\ testBatches = <<>>
    /\ evalPc = "off"
    /\ batchNo = 0
    /\ evalActivations = <<>>
    /\ evalPredictions = <<>>
    /\ correct = 0
    /\ evalReport = <<>>
    /\ evalAcc = <<0, 1>>

InitLoss ==
    /\ ParamIdle
    /\ BlockIdle
    /\ NetIdle
    /\ TrainIdle
    /\ EvalIdle
    /\ k \in KSet
    /\ tieOrder \in TieOrders
    /\ \E n \in BatchSizes :
          /\ activation \in Signals(n)
          /\ prediction \in Related(activation)
    /\ lossPc = "ready"
    /\ oneSide = NoResult
    /\ oneSidePrev = NoResult
    /\ twoAB = NoLoss
    /\ twoBA = NoLoss

\* loss = self.topk(activation, prediction)
CallOneSide ==
    /\ lossPc = "ready"
    /\ oneSide' = OneSideForward(k, activation, prediction)
    /\ lossPc' = "one"
    /\ UNCHANGED <<k, tieOrder, activation, prediction, oneSidePrev, twoAB, twoBA>>
    /\ UNCHANGED <<paramVars, blockVars, netVars, trainVars, evalVars>>

\* the same call again, on the same input
CallOneSideAgain ==
    /\ lossPc = "one"
    /\ oneSidePrev' = oneSide
    /\ oneSide' = OneSideForward(k, activation, prediction)
    /\ lossPc' = "again"
    /\ UNCHANGED <<k, tieOrder, activation, prediction, twoAB, twoBA>>
    /\ UNCHANGED <<paramVars, blockVars, netVars, trainVars, evalVars>>

\* D(a, b) and D(b, a)
CallTwoSide ==
    /\ lossPc = "ready"
    /\ twoAB' = TwoSideForward(k, activation, prediction)
    /\ twoBA' = TwoSideForward(k, prediction, activation)
    /\ lossPc' = "two"
    /\ UNCHANGED <<k, tieOrder, activation, prediction, oneSide, oneSidePrev>>
    /\ UNCHANGED <<paramVars, blockVars, netVars, trainVars, evalVars>>

NextLoss == CallOneSide \/ CallOneSideAgain \/ CallTwoSide

SpecLoss == InitLoss /\ [][NextLoss]_vars

-----------------------------------------------------------------------------
(* One MonoBasicBlock under direct call, in both modes *)

\* Bounds of the block's input and configuration.
MaxHW == 2

MaxStride == 2

BlockChannels == 1 .. 2

\* Parameter values and input seeds, paired.
ThetaSeeds == {<<0, 0>>, <<1, 1>>, <<1, 2>>}

\* (n, H, W) of the inputs: small batches of every height and width up to
\* MaxHW, and a batch of 20 (for which BlockK selects one row).
InputShapes ==
    {<<2, h, w>> : h \in 1 .. MaxHW, w \in 1 .. MaxHW} \cup {<<20, 1, 1>>}

Image(n, channels, h, w, seed) ==
    [b \in 1 .. n |->
      [c \in 1 .. channels |->
        [i \in 1 .. h |->
          [j \in 1 .. w |-> (seed + 2 * b + 3 * c + 5 * i + 7 * j + seed * b * i) % 3]]]]

Embedding(n, seed) ==
    [b \in 1 .. n |-> [d \in 1 .. EmbDim |-> (((seed + 1) * b + d * d) % 5) - 2]]

\* Running statistics a block can hold: fresh, or moved by earlier training.
StatsChoices(b) ==
    {FreshBlockStats(b),
     [s \in 1 .. 3 |-> [c \in 1 .. b.out_channels |-> [mean |-> 1, var |-> 4]]]}

InitBlock ==
    /\ LossIdle
    /\ NetIdle
    /\ TrainIdle
    /\ EvalIdle
    /\ training \in BOOLEAN
    /\ \E cin \in BlockChannels, cout \in BlockChannels, stride \in 1 .. MaxStride :
          blk = MonoBasicBlock(0, cin, cout, stride)
    /\ \E shape \in InputShapes, ts \in ThetaSeeds :
          /\ theta = ts[1]
          /\ blkInput = Image(shape[1], blk.in_channels, shape[2], shape[3], ts[2])
          /\ clip_embeddings = Embedding(shape[1], ts[2])
          /\ tieOrder \in (IF shape[1] = 20 THEN TieOrders ELSE {"low"})
    /\ blkStats \in (IF training THEN {FreshBlockStats(blk)} ELSE StatsChoices(blk))
    /\ blkDone = {}
    /\ blkLoss = NoForward
    /\ blkInsp = NoForward

\* fx, loss = block(x, clip_embeddings)
CallLossMode ==
    /\ "loss" \notin blkDone
    /\ blkLoss' = BlockForward(blk, blkStats, blkInput, clip_embeddings, FALSE)
    /\ blkStats' = blkLoss'.stats
    /\ blkDone' = blkDone \cup {"loss"}
    /\ UNCHANGED <<blk, blkInput, blkInsp>>
    /\ UNCHANGED <<lossVars, paramVars, netVars, trainVars, evalVars>>

\* fx, pairs = block(x, clip_embeddings, activations=True)
CallInspectionMode ==
    /\ "insp" \notin blkDone
    /\ blkInsp' = BlockForward(blk, blkStats, blkInput, clip_embeddings, TRUE)
    /\ blkStats' = blkInsp'.stats
    /\ blkDone' = blkDone \cup {"insp"}
    /\ UNCHANGED <<blk, blkInput, blkLoss>>
    /\ UNCHANGED <<lossVars, paramVars, netVars, trainVars, evalVars>>

NextBlock == CallLossMode \/ CallInspectionMode

SpecBlock == InitBlock /\ [][NextBlock]_vars

-----------------------------------------------------------------------------
(* One MonoResNet.forward *)

\* Most blocks in a stage.
MaxBlocks == 2

\* The networks built: every stage has m blocks, but for at most one stage,
\* which has none.
NumBlocks ==
    {[s \in 1 .. 4 |-> IF s = z THEN 0 ELSE m] : z \in 0 .. 4, m \in 1 .. MaxBlocks}

\* (n, H, W) of the small image batches.
NetShapes == {<<2, 1, 1>>, <<2, MaxHW, MaxHW>>}

\* The calls train.py makes: monotrain in training mode for the loss,
\* eval_training in evaluation mode for the activations; and the loss in
\* evaluation mode.  Each is <<training, activations>>.
NetModes == {<<TRUE, FALSE>>, <<FALSE, FALSE>>, <<FALSE, TRUE>>}

\* Parameter values and input seeds of the network runs, paired.
NetThetaSeeds == {<<0, 0>>, <<1, 2>>}

\* The inputs, each <<shape, <<theta, seed>>>>: the small batches, and one
\* batch of 20 rows (of which BlockK selects one).
NetInputs == (NetShapes \X NetThetaSeeds) \cup {<<(<<20, 1, 1>>), (<<1, 2>>)>>}

\* Running statistics of a freshly built network.
FreshNetStats(nb) ==
    [conv1 |-> FreshStats(StageWidths[1]),
     stages |-> [s \in 1 .. 4 |->
                   LET layers == StageLayers(nb, s)
                   IN  [i \in 1 .. Len(layers) |-> FreshBlockStats(layers[i])]]]

InitNet ==
    /\ LossIdle
    /\ BlockIdle
    /\ TrainIdle
    /\ EvalIdle
    /\ \E mode \in NetModes : training = mode[1] /\ netActivations = mode[2]
    /\ num_block \in NumBlocks
    /\ \E in \in NetInputs :
          LET shape == in[1]
              ts == in[2]
          IN  /\ theta = ts[1]
              /\ images = Image(shape[1], ImageChannels, shape[2], shape[3], ts[2])
              /\ clip_embeddings = Embedding(shape[1], ts[2])
              /\ tieOrder \in (IF shape[1] = 20 THEN TieOrders ELSE {"low"})
    /\ netPc = 0
    /\ netOutput = <<>>
    /\ netL = <<0, 1>>
    /\ netStats = FreshNetStats(num_block)
    /\ netStages = <<>>

\* output = self.conv1(x)
NetConv1 ==
    /\ netPc = 0
    /\ netOutput' = Conv1(images, netStats.conv1)
    /\ netStats' = [netStats EXCEPT !.conv1 = Conv1Stats(images, netStats.conv1)]
    /\ netPc' = 1
    /\ UNCHANGED <<num_block, images, netActivations, netL, netStages>>
    /\ UNCHANGED <<lossVars, paramVars, blockVars, trainVars, evalVars>>

\* The assignments after stage s returned r; first tells "output, l = ..."
\* from "output, ln = ...; l += ln".
NetAssign(s, first, r) ==
    /\ netPc' = IF r.raised THEN -1 ELSE s + 1
    /\ netOutput' = r.x
    /\ netL' = IF first
               THEN r.l
               ELSE IF netActivations THEN netL \o r.l ELSE RatAdd(netL, r.l)
    /\ netStats' = [netStats EXCEPT !.stages[s] = r.stats]
    /\ netStages' = Append(netStages,
                           [x |-> netOutput, out |-> r.x, l |-> r.l, units |-> r.units])
    /\ UNCHANGED <<num_block, images, netActivations>>
    /\ UNCHANGED <<lossVars, paramVars, blockVars, trainVars, evalVars>>

\* Stage s called on output.
NetStage(s, first) ==
    NetAssign(s, first,
              SeqForward(StageLayers(num_block, s), netStats.stages[s], netOutput,
                         clip_embeddings, netActivations))

\* output, l = self.conv2_x(output, clip_embedding, activations=activations)
NetFirstStage ==
    /\ netPc = 1
    /\ NetStage(1, TRUE)

\* output, ln = self.conv3_x(...); l += ln, and the same for conv4_x, conv5_x
NetNextStage ==
    /\ netPc \in 2 .. 4
    /\ NetStage(netPc, FALSE)

\* avg_pool, view, fc; return output, l
NetHead ==
    /\ netPc = 5
    /\ netOutput' = ClassLogits(netOutput)
    /\ netPc' = 6
    /\ UNCHANGED <<num_block, images, netActivations, netL, netStats, netStages>>
    /\ UNCHANGED <<lossVars, paramVars, blockVars, trainVars, evalVars>>

NextNet == NetConv1 \/ NetFirstStage \/ NetNextStage \/ NetHead

SpecNet == InitNet /\ [][NextNet]_vars

-----------------------------------------------------------------------------
(* train.py: __main__, monotrain, train, eval_training *)
(* The forward pass is the one of MonoResNet above; here it is the choice  *)
(* of a classification loss and an auxiliary loss.  eval_training is the   *)
(* choice of an accuracy (its report is modelled further below).           *)

\* Bounds of a run.
MaxEpoch == 3

MaxWarm == 2

MaxIter == 2

MaxSaveEpoch == 2

\* settings.MILESTONES, scaled down from [60, 120, 160].
MilestoneChoices == {<<0, 1, 2>>, <<1, 2, 3>>}

\* args.alpha: the default 0.3
Alphas == {<<3, 10>>}

\* Accuracies eval_training can return, in percent.
AccValues == {30, 50, 70}

\* Classification losses of a batch, in thousandths.
ClsValues == {1200, 4605}

\* Auxiliary losses of a batch.
AuxValues == {<<0, 1>>, <<7, 2>>}

\* What an earlier run can have left in its checkpoint folder.
StoreChoices ==
    {{}, {<<1, "regular">>}, {<<1, "regular">>, <<2, "best">>},
     {<<1, "best">>, <<2, "regular">>}, {<<2, "regular">>, <<MaxEpoch, "regular">>}}

RatMul(p, q) == Rat(p[1] * q[1], p[2] * q[2])

\* Mutant of CombinedLoss: alpha left out.
CombinedLossNoAlpha(cls, l, alpha) == RatAdd(<<cls, 1>>, l)

\* loss = classification_loss + l * alpha
CombinedLoss(cls, l, alpha) == RatAdd(<<cls, 1>>, RatMul(l, alpha))

\* Mutant of InWarmup: the last warm-up epoch left out.
InWarmupStrict(e, warm) == e < warm

\* if epoch <= args.warm
InWarmup(e, warm) == e <= warm

\* Mutant of SaveDue: one epoch late.
SaveDueLate(e, save_epoch) == e % save_epoch = 1 % save_epoch /\ save_epoch > 1

\* if not epoch % settings.SAVE_EPOCH
SaveDue(e, save_epoch) == e % save_epoch = 0

\* The files tagged 'best', and the largest epoch among a set of files.
BestFiles(fs) == {f \in fs : f[2] = "best"}

MaxEpochOf(fs) == CHOOSE e \in {f[1] : f \in fs} : \A f \in fs : f[1] <= e

\* Mutant of IsBest: an accuracy equal to best_acc taken as an improvement.
IsBestNotStrict(e, milestones, best, a) == e > milestones[2] /\ best <= a

\* if epoch > settings.MILESTONES[1] and best_acc < acc
IsBest(e, milestones, best, a) == e > milestones[2] /\ best < a

\* Mutant of Skipped: the last saved epoch is trained again.
SkippedStrict(resume, e, last) == resume /\ e < last

\* if args.resume: if epoch <= resume_epoch: continue
Skipped(resume, e, last) == resume /\ e <= last

\* Mutant of RecentFolderMissing: the check left out.
RecentFolderMissingNever(resume, found) == FALSE

\* if args.resume: ... if not recent_folder: raise
RecentFolderMissing(resume, found) == resume /\ ~found

InitTrain ==
    /\ LossIdle
    /\ BlockIdle
    /\ NetIdle
    /\ EvalIdle
    /\ tieOrder = "low"
    /\ theta = 0
    /\ training = TRUE
    /\ clip_embeddings = <<>>
    /\ args \in {[mono |-> m, warm |-> w, resume |-> r, alpha |-> a] :
                   m \in BOOLEAN, w \in 0 .. MaxWarm, r \in BOOLEAN, a \in Alphas}
    /\ settings \in {[EPOCH |-> MaxEpoch, MILESTONES |-> ms, SAVE_EPOCH |-> se] :
                       ms \in MilestoneChoices, se \in 1 .. MaxSaveEpoch}
    /\ iter_per_epoch \in 1 .. MaxIter
    /\ folder \in (IF args.resume THEN BOOLEAN ELSE {FALSE})
    /\ files \in (IF folder THEN StoreChoices ELSE {{}})
    /\ pc = "start"
    /\ epoch = 0
    /\ batch_index = 0
    /\ classification_loss = 0
    /\ auxLoss = <<0, 1>>
    /\ backwardLoss = <<0, 1>>
    /\ batchLog = <<>>
    /\ batchesStarted = 0
    /\ optimizerSteps = 0
    /\ stepsIn = [e \in 1 .. MaxEpoch |-> 0]
    /\ warmupSteps = [e \in 1 .. MaxEpoch |-> 0]
    /\ schedulerSteps = <<>>
    /\ best_acc = 0
    /\ acc = 0
    /\ resume_epoch = 0
    /\ saved = {}
    /\ epochLog = <<>>

\* Lines 309-350: the optimizer and the schedulers are built, the checkpoint
\* folder is found or made; a resumed run without a folder raises.
Startup ==
    /\ pc = "start"
    /\ IF RecentFolderMissing(args.resume, folder)
       THEN pc' = "raised" /\ UNCHANGED epoch
       ELSE IF args.resume
       THEN pc' = "resume" /\ UNCHANGED epoch
       ELSE pc' = "loop" /\ epoch' = 1
    /\ best_acc' = 0
    /\ UNCHANGED <<args, settings, iter_per_epoch, folder, files, batch_index,
                   classification_loss, auxLoss, backwardLoss, batchLog,
                   batchesStarted, optimizerSteps, stepsIn, warmupSteps,
                   schedulerSteps, acc, resume_epoch, saved, epochLog>>
    /\ UNCHANGED <<lossVars, paramVars, blockVars, netVars, evalVars>>

\* Lines 351-358: the best weights of the earlier run, if any, are loaded and
\* evaluated for best_acc.
ResumeBest ==
    /\ pc = "resume"
    /\ IF BestFiles(files) # {}
       THEN /\ \E a \in AccValues : best_acc' = a
            /\ training' = FALSE
       ELSE UNCHANGED <<best_acc, training>>
    /\ pc' = "recent"
    /\ UNCHANGED <<args, settings, iter_per_epoch, folder, files, epoch, batch_index,
                   classification_loss, auxLoss, backwardLoss, batchLog,
                   batchesStarted, optimizerSteps, stepsIn, warmupSteps,
                   schedulerSteps, acc, resume_epoch, saved, epochLog>>
    /\ UNCHANGED <<lossVars, theta, clip_embeddings, blockVars, netVars, evalVars>>

\* Lines 360-368: the most recent weights are loaded, or the run raises.
ResumeRecent ==
    /\ pc = "recent"
    /\ IF files = {}
       THEN pc' = "raised" /\ UNCHANGED <<resume_epoch, epoch>>
       ELSE pc' = "loop" /\ resume_epoch' = MaxEpochOf(files) /\ epoch' = 1
    /\ UNCHANGED <<args, settings, iter_per_epoch, folder, files, batch_index,
                   classification_loss, auxLoss, backwardLoss, batchLog,
                   batchesStarted, optimizerSteps, stepsIn, warmupSteps,
                   schedulerSteps, best_acc, acc, saved, epochLog>>
    /\ UNCHANGED <<lossVars, paramVars, blockVars, netVars, evalVars>>

\* Lines 370-380: the head of the epoch loop, up to net.train() and the first
\* batch of monotrain (or train).
EpochStart ==
    /\ pc = "loop"
    /\ IF epoch > settings.EPOCH
       THEN /\ pc' = "done"
            /\ UNCHANGED <<epoch, schedulerSteps, batch_index, batchLog,
                           batchesStarted, training>>
       ELSE /\ schedulerSteps' =
                   IF epoch > args.warm
                   THEN Append(schedulerSteps, [epoch |-> epoch, before |-> stepsIn[epoch]])
                   ELSE schedulerSteps
            /\ IF Skipped(args.resume, epoch, resume_epoch)
               THEN /\ epoch' = epoch + 1
                    /\ pc' = "loop"
                    /\ UNCHANGED <<batch_index, batchLog, batchesStarted, training>>
               ELSE /\ training' = TRUE
                    /\ batch_index' = 0
                    /\ batchLog' = <<>>
                    /\ batchesStarted' = batchesStarted + 1
                    /\ pc' = "zero_grad"
                    /\ UNCHANGED epoch
    /\ UNCHANGED <<args, settings, iter_per_epoch, folder, files,
                   classification_loss, auxLoss, backwardLoss, optimizerSteps,
                   stepsIn, warmupSteps, best_acc, acc, resume_epoch, saved, epochLog>>
    /\ UNCHANGED <<lossVars, theta, clip_embeddings, blockVars, netVars, evalVars>>

\* optimizer.zero_grad()
ZeroGrad ==
    /\ pc = "zero_grad"
    /\ batchLog' = Append(batchLog, "zero_grad")
    /\ pc' = "forward"
    /\ UNCHANGED <<args, settings, iter_per_epoch, folder, files, epoch, batch_index,
                   classification_loss, auxLoss, backwardLoss, batchesStarted,
                   optimizerSteps, stepsIn, warmupSteps, schedulerSteps, best_acc,
                   acc, resume_epoch, saved, epochLog>>
    /\ UNCHANGED <<lossVars, paramVars, blockVars, netVars, evalVars>>

\* outputs, l = net(images, clip_embeddings) and the classification loss
\* (outputs = net(images) in train, which has no l)
Forward ==
    /\ pc = "forward"
    /\ \E c \in ClsValues : classification_loss' = c
    /\ IF args.mono
       THEN \E a \in AuxValues : auxLoss' = a
       ELSE auxLoss' = <<0, 1>>
    /\ batchLog' = Append(batchLog, "forward")
    /\ pc' = "backward"
    /\ UNCHANGED <<args, settings, iter_per_epoch, folder, files, epoch, batch_index,
                   backwardLoss, batchesStarted, optimizerSteps, stepsIn,
                   warmupSteps, schedulerSteps, best_acc, acc, resume_epoch, saved,
                   epochLog>>
    /\ UNCHANGED <<lossVars, paramVars, blockVars, netVars, evalVars>>

\* loss = classification_loss + l * alpha (the classification loss alone in
\* train); loss.backward()
Backward ==
    /\ pc = "backward"
    /\ backwardLoss' = IF args.mono
                       THEN CombinedLoss(classification_loss, auxLoss, args.alpha)
                       ELSE <<classification_loss, 1>>
    /\ batchLog' = Append(batchLog, "backward")
    /\ pc' = "step"
    /\ UNCHANGED <<args, settings, iter_per_epoch, folder, files, epoch, batch_index,
                   classification_loss, auxLoss, batchesStarted, optimizerSteps,
                   stepsIn, warmupSteps, schedulerSteps, best_acc, acc,
                   resume_epoch, saved, epochLog>>
    /\ UNCHANGED <<lossVars, paramVars, blockVars, netVars, evalVars>>

\* optimizer.step()
OptimizerStep ==
    /\ pc = "step"
    /\ optimizerSteps' = optimizerSteps + 1
    /\ stepsIn' = [stepsIn EXCEPT ![epoch] = @ + 1]
    /\ batchLog' = Append(batchLog, "step")
    /\ pc' = "warmup"
    /\ UNCHANGED <<args, settings, iter_per_epoch, folder, files, epoch, batch_index,
                   classification_loss, auxLoss, backwardLoss, batchesStarted,
                   warmupSteps, schedulerSteps, best_acc, acc, resume_epoch, saved,
                   epochLog>>
    /\ UNCHANGED <<lossVars, paramVars, blockVars, netVars, evalVars>>

\* "if epoch <= args.warm: warmup_scheduler.step()", then the next batch, or
\* the end of monotrain (train) after the last one
WarmupStep ==
    /\ pc = "warmup"
    /\ warmupSteps' = IF InWarmup(epoch, args.warm)
                      THEN [warmupSteps EXCEPT ![epoch] = @ + 1]
                      ELSE warmupSteps
    /\ batchLog' = <<>>
    /\ IF batch_index + 1 < iter_per_epoch
       THEN /\ batch_index' = batch_index + 1
            /\ batchesStarted' = batchesStarted + 1
            /\ pc' = "zero_grad"
       ELSE /\ pc' = "eval"
            /\ UNCHANGED <<batch_index, batchesStarted>>
    /\ UNCHANGED <<args, settings, iter_per_epoch, folder, files, epoch,
                   classification_loss, auxLoss, backwardLoss, optimizerSteps,
                   stepsIn, schedulerSteps, best_acc, acc, resume_epoch, saved,
                   epochLog>>
    /\ UNCHANGED <<lossVars, paramVars, blockVars, netVars, evalVars>>

\* acc = eval_training(epoch)
EvalTraining ==
    /\ pc = "eval"
    /\ training' = FALSE
    /\ \E a \in AccValues :
          /\ acc' = a
          /\ epochLog' = Append(epochLog, [epoch |-> epoch, acc |-> a, best_acc |-> best_acc])
    /\ pc' = "save"
    /\ UNCHANGED <<args, settings, iter_per_epoch, folder, files, epoch, batch_index,
                   classification_loss, auxLoss, backwardLoss, batchLog,
                   batchesStarted, optimizerSteps, stepsIn, warmupSteps,
                   schedulerSteps, best_acc, resume_epoch, saved>>
    /\ UNCHANGED <<lossVars, theta, clip_embeddings, blockVars, netVars, evalVars>>

\* Lines 383-394: the best weights are saved and the rest of the loop body is
\* skipped ("continue"), or the regular weights are saved when due.
SaveCheckpoint ==
    /\ pc = "save"
    /\ IF IsBest(epoch, settings.MILESTONES, best_acc, acc)
       THEN /\ saved' = saved \cup {<<epoch, "best">>}
            /\ files' = files \cup {<<epoch, "best">>}
            /\ best_acc' = acc
       ELSE IF SaveDue(epoch, settings.SAVE_EPOCH)
       THEN /\ saved' = saved \cup {<<epoch, "regular">>}
            /\ files' = files \cup {<<epoch, "regular">>}
            /\ UNCHANGED best_acc
       ELSE UNCHANGED <<saved, files, best_acc>>
    /\ epoch' = epoch + 1
    /\ pc' = "loop"
    /\ UNCHANGED <<args, settings, iter_per_epoch, folder, batch_index,
                   classification_loss, auxLoss, backwardLoss, batchLog,
                   batchesStarted, optimizerSteps, stepsIn, warmupSteps,
                   schedulerSteps, acc, resume_epoch, epochLog>>
    /\ UNCHANGED <<lossVars, paramVars, blockVars, netVars, evalVars>>

Next ==
    \/ Startup
    \/ ResumeBest
    \/ ResumeRecent
    \/ EpochStart
    \/ ZeroGrad
    \/ Forward
    \/ Backward
    \/ OptimizerStep
    \/ WarmupStep
    \/ EvalTraining
    \/ SaveCheckpoint

Spec == InitTrain /\ [][Next]_vars

-----------------------------------------------------------------------------
(* train.py: eval_training with args.mono, and its rank-agreement report *)
(* The network's answer to a test batch is given: the [activation,        *)
(* prediction] pairs of its tap points and the number of correct          *)
(* predictions.                                                            *)

\* Rows of a test batch.
EvalBatchRows == 10

\* Batches of the test loader.
EvalBatchCounts == {2, 4, 10}

\* Columns of the signals of the two tap points.
TapWidths == <<1, 2>>

EvalSeeds == {0, 1, 2}

\* The cutoff fractions of the report: 0.05, 0.01, 0.1
Cutoffs == <<<<1, 20>>, <<1, 100>>, <<1, 10>>>>

\* A signal of one batch at one tap point.
EvalSignal(seed, b, tap, salt) ==
    [r \in 1 .. EvalBatchRows |->
      [c \in 1 .. TapWidths[tap] |->
        ((seed + salt) * (r + EvalBatchRows * (b - 1)) + 3 * c + tap
             + ((r * r * salt) % 5)) % 7]]

\* The test batches: tap point i's prediction equals its activation in every
\* batch when same[i], and follows its own rule otherwise.
TestBatches(seed, count, same) ==
    [b \in 1 .. count |->
      [ac |-> [i \in 1 .. Len(TapWidths) |->
                 <<EvalSignal(seed, b, i, 1),
                   EvalSignal(seed, b, i, IF same[i] THEN 1 ELSE 2)>>],
       correct |-> (seed + 3 * b) % (EvalBatchRows + 1)]]

\* torch.cat((x, y), dim=0)
Cat(x, y) == x \o y

\* Lines 152-158: the pairs of one batch appended to, or concatenated with,
\* the lists so far; Concatenated gives one of the two lists (which = 1 the
\* activations, 2 the predictions).
Concatenated(list, ac, which) ==
    [i \in 1 .. Len(ac) |->
        IF Len(list) <= i - 1 THEN ac[i][which] ELSE Cat(list[i], ac[i][which])]

\* Mutant of PredictionMask: the smallest values are selected.
PredictionMaskSmallest(pred, top_k) ==
    LET flipped == [r \in 1 .. Len(pred) |->
                      [c \in 1 .. NumCols(pred) |-> 0 - pred[r][c]]]
    IN  Scatter(ZerosLike(pred), TopkIndices(flipped, top_k))

\* modified_activation: torch.topk(activation, top_k, dim=0), zeros_like,
\* scatter_
ActivationMask(act, top_k) ==
    Scatter(ZerosLike(act), TopkIndices(act, top_k))

\* modified_prediction, likewise
PredictionMask(pred, top_k) ==
    Scatter(ZerosLike(pred), TopkIndices(pred, top_k))

\* Mutant of ConfusionMatrix: fp counts every selected prediction.
ConfusionMatrixFpAll(target, pred) ==
    LET Count(t, q) ==
            Cardinality({e \in 1 .. Len(target) : target[e] = t /\ pred[e] = q})
    IN  [tn |-> Count(0, 0), fp |-> Count(0, 1) + Count(1, 1), fn |-> Count(1, 0),
         tp |-> Count(1, 1)]

\* confusion_matrix(target, prediction) on the flattened masks
ConfusionMatrix(target, pred) ==
    LET Count(t, q) ==
            Cardinality({e \in 1 .. Len(target) : target[e] = t /\ pred[e] = q})
    IN  [tn |-> Count(0, 0), fp |-> Count(0, 1), fn |-> Count(1, 0), tp |-> Count(1, 1)]

\* One line of the report: the confusion matrix of the two masks at cutoff kk.
ReportAt(act, pred, kk) ==
    ConfusionMatrix(
        Flatten(ActivationMask(act, TopK(kk, Len(act)))),
        Flatten(PredictionMask(pred, TopK(kk, Len(act)))))

InitEval ==
    /\ LossIdle
    /\ BlockIdle
    /\ NetIdle
    /\ TrainIdle
    /\ theta = 0
    /\ training = TRUE
    /\ clip_embeddings = <<>>
    /\ tieOrder \in TieOrders
    /\ \E seed \in EvalSeeds, count \in EvalBatchCounts, same \in [1 .. 2 -> BOOLEAN] :
          testBatches = TestBatches(seed, count, same)
    /\ evalPc = "begin"
    /\ batchNo = 0
    /\ evalActivations = <<>>
    /\ evalPredictions = <<>>
    /\ correct = 0
    /\ evalReport = <<>>
    /\ evalAcc = <<0, 1>>

\* Lines 131-138: net.eval() and the empty accumulators
EvalBegin ==
    /\ evalPc = "begin"
    /\ training' = FALSE
    /\ correct' = 0
    /\ evalActivations' = <<>>
    /\ evalPredictions' = <<>>
    /\ evalPc' = "batch"
    /\ UNCHANGED <<testBatches, batchNo, evalReport, evalAcc>>
    /\ UNCHANGED <<lossVars, theta, clip_embeddings, blockVars, netVars, trainVars>>

\* Lines 139-167: one turn of the loop over the test loader
EvalBatch ==
    /\ evalPc = "batch"
    /\ IF batchNo < Len(testBatches)
       THEN /\ evalActivations' =
                   Concatenated(evalActivations, testBatches[batchNo + 1].ac, 1)
            /\ evalPredictions' =
                   Concatenated(evalPredictions, testBatches[batchNo + 1].ac, 2)
            /\ correct' = correct + testBatches[batchNo + 1].correct
            /\ batchNo' = batchNo + 1
            /\ UNCHANGED evalPc
       ELSE /\ evalPc' = "report"
            /\ UNCHANGED <<evalActivations, evalPredictions, correct, batchNo>>
    /\ UNCHANGED <<testBatches, evalReport, evalAcc>>
    /\ UNCHANGED <<lossVars, paramVars, blockVars, netVars, trainVars>>

\* Lines 169-244: the report, for every tap point at the three cutoffs
EvalReport ==
    /\ evalPc = "report"
    /\ evalReport' =
           [i \in 1 .. Len(evalActivations) |->
              [c \in 1 .. Len(Cutoffs) |->
                 ReportAt(evalActivations[i], evalPredictions[i], Cutoffs[c])]]
    /\ evalPc' = "return"
    /\ UNCHANGED <<testBatches, batchNo, evalActivations, evalPredictions, correct,
                   evalAcc>>
    /\ UNCHANGED <<lossVars, paramVars, blockVars, netVars, trainVars>>

\* Lines 246-266: return correct.float() / len(cifar100_test_loader.dataset)
EvalReturn ==
    /\ evalPc = "return"
    /\ evalAcc' = Rat(correct, EvalBatchRows * Len(testBatches))
    /\ evalPc' = "done"
    /\ UNCHANGED <<testBatches, batchNo, evalActivations, evalPredictions, correct,
                   evalReport>>
    /\ UNCHANGED <<lossVars, paramVars, blockVars, netVars, trainVars>>

NextEval == EvalBegin \/ EvalBatch \/ EvalReport \/ EvalReturn

SpecEval == InitEval /\ [][NextEval]_vars

-----------------------------------------------------------------------------
(* Properties of the loss modules *)

\* k lies in (0, 1]
KInUnit == k[1] >= 1 /\ k[1] <= k[2]

\* floor(kk * n), by its defining inequalities
FloorKN(kk, n) ==
    CHOOSE m \in 0 .. (kk[1] * n) : m * kk[2] <= kk[1] * n /\ kk[1] * n < (m + 1) * kk[2]

ColumnOnes(mask, j) == Cardinality({i \in 1 .. Len(mask) : mask[i][j] = 1})

NoTies(sig) ==
    \A j \in 1 .. NumCols(sig) :
        \A i1, i2 \in 1 .. Len(sig) : i1 # i2 => sig[i1][j] # sig[i2][j]

Larger(sig, j, i) == Cardinality({i2 \in 1 .. Len(sig) : sig[i2][j] > sig[i][j]})

\* C1: for k in (0, 1] the mask built from an (n, C) target holds only 0 and
\* 1, has exactly floor(k * n) ones in every channel column, the ones at the
\* column's floor(k * n) largest values when no two values of a column are
\* equal, and a second call on the same input builds the same mask; n = 20
\* with k = 0.05 selects one row per column.
C1_MaskHasFloorKnOnes ==
    (lossPc \in {"one", "again"} /\ KInUnit) =>
        LET n == Len(prediction)
            mask == oneSide.mask
        IN  /\ ~oneSide.raised
            /\ Len(mask) = n
            /\ \A i \in 1 .. n : \A j \in Channels : mask[i][j] \in {0, 1}
            /\ \A j \in Channels : ColumnOnes(mask, j) = FloorKN(k, n)
            /\ NoTies(prediction) =>
                   \A i \in 1 .. n : \A j \in Channels :
                       mask[i][j] = 1 <=> Larger(prediction, j, i) < FloorKN(k, n)
            /\ (lossPc = "again" /\ NoTies(prediction)) => oneSide.mask = oneSidePrev.mask
            /\ (n = 20 /\ k = <<1, 20>>) => \A j \in Channels : ColumnOnes(mask, j) = 1

\* C1 witness: the second call on a batch of 20 with k = 0.05 and no ties,
\* the two columns selecting different rows.
C1_Witness ==
    /\ lossPc = "again"
    /\ k = <<1, 20>>
    /\ Len(prediction) = 20
    /\ NoTies(prediction)
    /\ \E i \in 1 .. 20 : oneSide.mask[i][1] = 1 /\ oneSide.mask[i][2] = 0

\* C2: the symmetric divergence does not change when its two arguments are
\* swapped: D(a, b) = D(b, a), the same fraction and the same outcome.
C2_TwoSideSymmetric ==
    lossPc = "two" => twoAB = twoBA

\* C2 witness: D was computed for two different signals whose one-sided
\* losses differ, with a nonempty selection.
C2_Witness ==
    /\ lossPc = "two"
    /\ ~twoAB.raised
    /\ TopK(k, Len(activation)) >= 1
    /\ activation # prediction
    /\ OneSideForward(k, activation, prediction).loss
           # OneSideForward(k, prediction, activation).loss

\* C7: when floor(k * n) = 0 the call does not raise, the mask is all zero,
\* every element weight is 1/100, and the loss is the mean over all elements
\* of the binary cross-entropy of output against 0, divided by 100.
C7_ZeroSelection ==
    (lossPc \in {"one", "again"} /\ FloorKN(k, Len(prediction)) = 0) =>
        LET n == Len(prediction)
            out == Flatten(activation)
        IN  /\ ~oneSide.raised
            /\ oneSide.mask = [i \in 1 .. n |-> [j \in Channels |-> 0]]
            /\ Len(oneSide.weight) = n * Cardinality(Channels)
            /\ \A e \in 1 .. Len(oneSide.weight) :
                   Rat(oneSide.weight[e], WeightDen(k)) = <<1, 100>>
            /\ oneSide.loss =
                   Rat(SumSeq([e \in 1 .. Len(out) |-> BceWithLogits(out[e], 0)]),
                       100 * Len(out))

\* C7 witness: a call with k = 0.05 on a batch of 5 (floor(k * n) = 0) whose
\* output signal is not constant.
C7_Witness ==
    /\ lossPc = "one"
    /\ k = <<1, 20>>
    /\ Len(prediction) = 5
    /\ \E i \in 1 .. 5 : activation[i][1] # activation[1][1]
    /\ ~oneSide.raised
    /\ oneSide.loss[1] > 0

\* Column j of a signal, as a signal of one column.
Column(sig, j) == [i \in 1 .. Len(sig) |-> <<sig[i][j]>>]

\* The mask of a call whose target is the one-column signal col.
MaskOf(col, top_k) == Scatter(ZerosLike(col), TopkIndices(col, top_k))

\* C12 as stated: every row of the mask is all ones or all zeros across the
\* channel columns.
C12_RowsUniform ==
    (lossPc \in {"one", "again"} /\ ~oneSide.raised) =>
        \A i \in 1 .. Len(oneSide.mask) :
            \A j1, j2 \in Channels : oneSide.mask[i][j1] = oneSide.mask[i][j2]

\* C12, amended: the rows are selected for every channel column separately:
\* column j of the mask is the mask of column j taken alone as the target,
\* so it has top_k ones whatever the other columns hold, and a row is all
\* ones or all zeros only where the columns' selections coincide.
C12_ColumnsSelectedSeparately ==
    (lossPc \in {"one", "again"} /\ ~oneSide.raised) =>
        LET n == Len(prediction)
            top_k == TopK(k, n)
        IN  \A j \in Channels :
                LET alone == MaskOf(Column(prediction, j), top_k)
                IN  /\ \A i \in 1 .. n : oneSide.mask[i][j] = alone[i][1]
                    /\ ColumnOnes(oneSide.mask, j) = top_k

\* C12 witness: a batch of 20 with k = 1/4 selects five rows in each column,
\* and some row is selected in the first column but not in the second.
C12_Witness ==
    /\ lossPc = "one"
    /\ ~oneSide.raised
    /\ Len(prediction) = 20
    /\ TopK(k, Len(prediction)) = 5
    /\ ColumnOnes(oneSide.mask, 1) = 5
    /\ ColumnOnes(oneSide.mask, 2) = 5
    /\ \E i \in 1 .. 20 : oneSide.mask[i][1] = 1 /\ oneSide.mask[i][2] = 0

-----------------------------------------------------------------------------
(* Properties of MonoBasicBlock *)

\* C3: called in both modes on the same input, embedding and parameters, the
\* block returns the same feature map fx, and its loss-mode scalar is
\* D(Activation#1, Prediction#1) + D(Activation#2, Prediction#2) computed on
\* the two pairs that inspection mode returned.
C3_ModesAgree ==
    blkDone = {"loss", "insp"} =>
        /\ ~blkLoss.raised
        /\ ~blkInsp.raised
        /\ blkLoss.fx = blkInsp.fx
        /\ blkLoss.aux =
               LossSum(TwoSideForward(BlockK, blkInsp.aux[1][1], blkInsp.aux[1][2]),
                       TwoSideForward(BlockK, blkInsp.aux[2][1], blkInsp.aux[2][2]))

\* C3 witness: both modes were called in training mode on a batch of 20 (one
\* row selected per column), the running statistics moved by the calls.
C3_Witness ==
    /\ blkDone = {"loss", "insp"}
    /\ training
    /\ Len(blkInput) = 20
    /\ blk.projection
    /\ blkStats # FreshBlockStats(blk)
    /\ blkLoss.aux.loss[1] > 0
    /\ blkInsp.aux[1][1] # blkInsp.aux[1][2]

LastForward == IF "loss" \in blkDone THEN blkLoss ELSE blkInsp

\* C9: a block with in_channels = out_channels and stride 1 passes x through
\* its shortcut unchanged; any other block has a projected shortcut whose
\* output has the shape (out_channels, H', W') of the residual path's output,
\* for every input height, width and stride, so the addition never fails.
C9_ShortcutShape ==
    blkDone # {} =>
        LET r == LastForward
            H == Len(blkInput[1][1])
            W == Len(blkInput[1][1][1])
        IN  /\ (blk.in_channels = blk.out_channels /\ blk.stride = 1) =>
                   r.shortcut = blkInput
            /\ (blk.in_channels # blk.out_channels \/ blk.stride # 1) => blk.projection
            /\ Shape(r.shortcut) = Shape(r.residual)
            /\ Shape(r.residual) =
                   <<blk.out_channels, ((H - 1) \div blk.stride) + 1,
                     ((W - 1) \div blk.stride) + 1>>
            /\ ~r.raised

\* C9 witness: a block with stride 2 and differing channel counts was called
\* on a 1 x 2 map.
C9_Witness ==
    /\ blkDone # {}
    /\ blk.stride = 2
    /\ blk.in_channels # blk.out_channels
    /\ Len(blkInput[1][1]) = 1
    /\ Len(blkInput[1][1][1]) = 2
    /\ Shape(LastForward.shortcut) = <<blk.out_channels, 1, 1>>

-----------------------------------------------------------------------------
(* Properties of MonoSequential and MonoResNet *)

\* The sum of the losses the first i of the given units returned.
RECURSIVE UnitLossSum(_, _)
UnitLossSum(units, i) ==
    IF i = 0 THEN <<0, 1>> ELSE RatAdd(UnitLossSum(units, i - 1), units[i].ln.loss)

\* The sum of the losses the first s stages returned.
RECURSIVE StageLossSum(_, _)
StageLossSum(stages, s) ==
    IF s = 0 THEN <<0, 1>> ELSE RatAdd(StageLossSum(stages, s - 1), stages[s].l)

\* The sum of the losses of every unit of the first s stages.
RECURSIVE AllUnitsLossSum(_, _)
AllUnitsLossSum(stages, s) ==
    IF s = 0
    THEN <<0, 1>>
    ELSE RatAdd(AllUnitsLossSum(stages, s - 1),
                UnitLossSum(stages[s].units, Len(stages[s].units)))

\* C4: in loss mode a stage returns the sum of its units' own losses, each
\* unit given the feature map of the unit before it and the same embedding;
\* a stage without units returns 0 and its input; the network's loss is the
\* sum of the stages' losses, which is the sum over every unit.
C4_LossIsSumOfUnits ==
    (~netActivations /\ netPc >= 1) =>
        /\ \A s \in 1 .. Len(netStages) :
              LET st == netStages[s]
                  N == Len(st.units)
              IN  /\ N = num_block[s]
                  /\ st.l = UnitLossSum(st.units, N)
                  /\ N = 0 => (st.l = <<0, 1>> /\ st.out = st.x)
                  /\ N > 0 => (st.units[1].x = st.x /\ st.out = st.units[N].fx)
                  /\ \A i \in 2 .. N : st.units[i].x = st.units[i - 1].fx
        /\ Len(netStages) >= 1 =>
              LET s == Len(netStages)
                  st == netStages[s]
                  layers == StageLayers(num_block, s)
              IN  \A i \in 1 .. Len(st.units) :
                     LET own == BlockForward(layers[i], netStats.stages[s][i],
                                             st.units[i].x, clip_embeddings, FALSE)
                     IN  /\ st.units[i].ln = own.aux
                         /\ st.units[i].fx = own.fx
        /\ netL = StageLossSum(netStages, Len(netStages))
        /\ netL = AllUnitsLossSum(netStages, Len(netStages))

\* C4 witness: a loss-mode forward has returned; one stage had no unit,
\* another had two, whose losses are both positive.
C4_Witness ==
    /\ netPc = 6
    /\ ~netActivations
    /\ \E s \in 1 .. 4 : num_block[s] = 0 /\ netStages[s].out = netStages[s].x
    /\ \E s \in 1 .. 4 :
          /\ num_block[s] = 2
          /\ netStages[s].units[1].ln.loss[1] > 0
          /\ netStages[s].units[2].ln.loss[1] > 0
          /\ netStages[s].l # netStages[s].units[2].ln.loss
    /\ netL[1] > 0

-----------------------------------------------------------------------------
(* Properties of train.py *)

\* The run is inside the body of the batch loop.
InBatch == pc \in {"zero_grad", "forward", "backward", "step", "warmup"}

BatchOrder == <<"zero_grad", "forward", "backward", "step">>

\* C5: within a batch the calls are zero_grad, forward, backward,
\* optimizer.step in this order; what monotrain backpropagates is
\* classification_loss + alpha * l of the batch's forward pass; and
\* optimizer.step has been called once for every batch taken so far (the
\* current one excepted until its step), so never between batches or during
\* evaluation.
C5_StepOrderAndLoss ==
    pc # "off" =>
        /\ Len(batchLog) <= 4
        /\ \A i \in 1 .. Len(batchLog) : batchLog[i] = BatchOrder[i]
        /\ ~InBatch => batchLog = <<>>
        /\ (args.mono /\ Len(batchLog) >= 3) =>
               backwardLoss[1] * auxLoss[2] * args.alpha[2] =
                   (classification_loss * auxLoss[2] * args.alpha[2]
                        + auxLoss[1] * args.alpha[1]) * backwardLoss[2]
        /\ optimizerSteps =
               batchesStarted - (IF InBatch /\ Len(batchLog) < 4 THEN 1 ELSE 0)

\* C5 witness: the second batch of a monotrain epoch has been stepped, with a
\* nonzero auxiliary loss in what was backpropagated.
C5_Witness ==
    /\ pc = "warmup"
    /\ args.mono
    /\ batch_index = 1
    /\ batchLog = BatchOrder
    /\ auxLoss = <<7, 2>>
    /\ backwardLoss # <<classification_loss, 1>>
    /\ optimizerSteps = batchesStarted
    /\ optimizerSteps >= 2

\* The number of calls train_scheduler.step(e) so far.
SchedulerStepsOf(e) ==
    Cardinality({i \in 1 .. Len(schedulerSteps) : schedulerSteps[i].epoch = e})

\* C6: warmup_scheduler is stepped once for every finished batch of an epoch
\* e <= warm and never in an epoch e > warm; train_scheduler is stepped only
\* for epochs e > warm, before any batch of the epoch; no epoch has steps of
\* both.
C6_SchedulesApart ==
    pc # "off" =>
        /\ \A e \in 1 .. settings.EPOCH :
              /\ e > args.warm => warmupSteps[e] = 0
              /\ e <= args.warm =>
                    warmupSteps[e] =
                        stepsIn[e] - (IF pc = "warmup" /\ epoch = e THEN 1 ELSE 0)
              /\ ~(warmupSteps[e] > 0 /\ SchedulerStepsOf(e) > 0)
              /\ SchedulerStepsOf(e) <= 1
        /\ \A i \in 1 .. Len(schedulerSteps) :
              /\ schedulerSteps[i].epoch > args.warm
              /\ schedulerSteps[i].before = 0

\* C6 witness: a run with one warm-up epoch of two batches has ended; epoch
\* 1 has two warm-up steps, the later epochs none and one scheduler step
\* each.
C6_Witness ==
    /\ pc = "done"
    /\ args.warm = 1
    /\ iter_per_epoch = 2
    /\ warmupSteps[1] = 2
    /\ stepsIn[2] = 2
    /\ warmupSteps[2] = 0
    /\ SchedulerStepsOf(1) = 0
    /\ SchedulerStepsOf(2) = 1

\* The evaluated epochs whose loop body has ended.
FinishedEpochs == {i \in 1 .. Len(epochLog) : epochLog[i].epoch < epoch}

\* Whether the epoch took the 'best' branch of the loop body.
TookBest(entry) ==
    entry.epoch > settings.MILESTONES[2] /\ entry.best_acc < entry.acc

\* C10 as stated: every trained epoch that is a multiple of SAVE_EPOCH has a
\* 'regular' checkpoint once its loop body has ended.
C10_RegularEverySaveEpoch ==
    \A i \in FinishedEpochs :
        epochLog[i].epoch % settings.SAVE_EPOCH = 0 =>
            <<epochLog[i].epoch, "regular">> \in saved

\* C10, amended: every trained epoch that is a multiple of SAVE_EPOCH has a
\* checkpoint once its loop body has ended: 'best' and not 'regular' when
\* the epoch is past MILESTONES[1] and its accuracy exceeds best_acc,
\* 'regular' otherwise.
C10_CheckpointEverySaveEpoch ==
    \A i \in FinishedEpochs :
        epochLog[i].epoch % settings.SAVE_EPOCH = 0 =>
            IF TookBest(epochLog[i])
            THEN /\ <<epochLog[i].epoch, "best">> \in saved
                 /\ <<epochLog[i].epoch, "regular">> \notin saved
            ELSE <<epochLog[i].epoch, "regular">> \in saved

\* C10 witness: a run has ended in which one multiple of SAVE_EPOCH got its
\* 'regular' checkpoint and another only a 'best' one.
C10_Witness ==
    /\ pc = "done"
    /\ \E i \in FinishedEpochs :
          /\ epochLog[i].epoch % settings.SAVE_EPOCH = 0
          /\ ~TookBest(epochLog[i])
          /\ <<epochLog[i].epoch, "regular">> \in saved
    /\ \E i \in FinishedEpochs :
          /\ epochLog[i].epoch % settings.SAVE_EPOCH = 0
          /\ TookBest(epochLog[i])
          /\ <<epochLog[i].epoch, "best">> \in saved
          /\ <<epochLog[i].epoch, "regular">> \notin saved

\* The run is before the epoch loop, or has raised.
BeforeLoop == pc \in {"start", "resume", "recent", "raised"}

\* C11: a resumed run that finds no recent folder, or no weights file in it,
\* never enters the epoch loop: it raises from where the lookup failed (the
\* folder lookup is before any weights are looked for), and no training
\* batch is started, no optimizer or scheduler step taken, no evaluation of
\* an epoch made and no checkpoint saved.  A run ends raised only this way.
C11_MissingResumeRaises ==
    /\ (pc # "off" /\ args.resume /\ (~folder \/ files = {})) =>
          /\ BeforeLoop
          /\ ~folder => pc \in {"start", "raised"}
          /\ batchesStarted = 0
          /\ optimizerSteps = 0
          /\ batchLog = <<>>
          /\ schedulerSteps = <<>>
          /\ epochLog = <<>>
          /\ saved = {}
          /\ best_acc = 0
    /\ pc = "raised" => (args.resume /\ (~folder \/ files = {}))

\* C11 witness: the folder of the earlier run is there but holds no weights
\* file, and the run has raised.
C11_Witness ==
    /\ pc = "raised"
    /\ args.resume
    /\ folder
    /\ files = {}
    /\ optimizerSteps = 0
    /\ saved = {}

\* best_acc when the loop body of the i-th evaluated epoch has ended.
BestAfter(i) == IF i < Len(epochLog) THEN epochLog[i + 1].best_acc ELSE best_acc

\* best_acc when the first epoch was evaluated: 0.0, or on a resumed run the
\* accuracy of the earlier run's best weights.
BestAtFirst == IF epochLog = <<>> THEN best_acc ELSE epochLog[1].best_acc

\* The largest of best_acc's first value and the accuracies of the finished
\* epochs with a 'best' checkpoint.
MaxOfBest ==
    LET accs == {BestAtFirst} \cup
                    {epochLog[i].acc : i \in {i2 \in FinishedEpochs :
                                                  <<epochLog[i2].epoch, "best">> \in saved}}
    IN  CHOOSE m \in accs : \A a \in accs : a <= m

\* C13: a finished epoch e has a 'best' checkpoint exactly when
\* e > MILESTONES[1] and its accuracy was greater than best_acc, and then
\* best_acc has become that accuracy; otherwise best_acc is as before.  So
\* best_acc never decreases, changes only at epochs past MILESTONES[1], and
\* is the largest of its first value and the accuracies of the epochs with a
\* 'best' checkpoint; its first value is 0 unless the run is resumed.
C13_BestTracksMaximum ==
    pc # "off" =>
        /\ \A i \in FinishedEpochs :
              /\ <<epochLog[i].epoch, "best">> \in saved <=> TookBest(epochLog[i])
              /\ TookBest(epochLog[i]) => BestAfter(i) = epochLog[i].acc
              /\ ~TookBest(epochLog[i]) => BestAfter(i) = epochLog[i].best_acc
              /\ epochLog[i].best_acc <= BestAfter(i)
              /\ BestAfter(i) # epochLog[i].best_acc =>
                     epochLog[i].epoch > settings.MILESTONES[2]
        /\ \A f \in saved : f[2] = "best" =>
              \E i \in 1 .. Len(epochLog) : epochLog[i].epoch = f[1]
        /\ best_acc = MaxOfBest
        /\ ~args.resume => BestAtFirst = 0

\* C13 witness: a run has ended in which an epoch not past MILESTONES[1]
\* improved on best_acc without a 'best' checkpoint, a later epoch got one,
\* and an epoch after that one did not improve and got none.
C13_Witness ==
    /\ pc = "done"
    /\ \E i1, i2, i3 \in FinishedEpochs :
          /\ i1 < i2 /\ i2 < i3
          /\ epochLog[i1].acc > epochLog[i1].best_acc
          /\ <<epochLog[i1].epoch, "best">> \notin saved
          /\ <<epochLog[i2].epoch, "best">> \in saved
          /\ epochLog[i3].acc <= epochLog[i3].best_acc
          /\ <<epochLog[i3].epoch, "best">> \notin saved
          /\ best_acc = epochLog[i2].acc

\* The run is in the epoch loop or past it.
InLoop == pc \notin {"off", "start", "resume", "recent", "raised"}

\* The run is in the body of epoch `epoch`, past the resume check.
InEpochBody == InBatch \/ pc \in {"eval", "save"}

\* C15: on a resumed run whose earlier run last saved epoch r, no epoch
\* e <= r has a batch, an optimizer step, a warm-up step, an evaluation or a
\* checkpoint of this run; the first epoch with any of these is r + 1 (there
\* is none when r is the last epoch of the run); and once the loop is past a
\* skipped epoch e, train_scheduler was stepped once for it when e > warm
\* and not at all when e <= warm.
C15_ResumeSkipsSavedEpochs ==
    (InLoop /\ args.resume) =>
        /\ resume_epoch = MaxEpochOf(files \ saved)
        /\ InEpochBody => epoch > resume_epoch
        /\ \A e \in 1 .. Min(resume_epoch, settings.EPOCH) :
              /\ stepsIn[e] = 0
              /\ warmupSteps[e] = 0
              /\ \A i \in 1 .. Len(epochLog) : epochLog[i].epoch # e
              /\ \A f \in saved : f[1] # e
              /\ (e < epoch /\ e > args.warm) => SchedulerStepsOf(e) = 1
              /\ e <= args.warm => SchedulerStepsOf(e) = 0
        /\ (batchesStarted > 0 /\ epochLog = <<>>) => epoch = resume_epoch + 1
        /\ epochLog # <<>> => epochLog[1].epoch = resume_epoch + 1
        /\ (pc = "done" /\ resume_epoch < settings.EPOCH) =>
               /\ epochLog # <<>>
               /\ stepsIn[resume_epoch + 1] = iter_per_epoch
        /\ (pc = "done" /\ resume_epoch >= settings.EPOCH) =>
               batchesStarted = 0 /\ epochLog = <<>> /\ saved = {}

\* C15 witness: a resumed run with one warm-up epoch has ended; the earlier
\* run had saved epoch 2; epochs 1 and 2 were skipped, train_scheduler
\* stepped for epoch 2 only, and epoch 3 was the first one trained.
C15_Witness ==
    /\ pc = "done"
    /\ args.resume
    /\ args.warm = 1
    /\ resume_epoch = 2
    /\ stepsIn[1] = 0 /\ stepsIn[2] = 0
    /\ SchedulerStepsOf(1) = 0
    /\ SchedulerStepsOf(2) = 1
    /\ warmupSteps[1] = 0
    /\ epochLog # <<>>
    /\ epochLog[1].epoch = 3
    /\ stepsIn[3] = iter_per_epoch

-----------------------------------------------------------------------------
(* Properties of eval_training's report *)

\* C8: for a tap point whose concatenated activation and prediction are
\* identical, the report has no false positive and no false negative at any
\* of the three cutoffs.
C8_IdenticalSignalsAgree ==
    evalPc \in {"return", "done"} =>
        \A i \in 1 .. Len(evalReport) :
            evalActivations[i] = evalPredictions[i] =>
                \A c \in 1 .. Len(Cutoffs) :
                    evalReport[i][c].fp = 0 /\ evalReport[i][c].fn = 0

\* C8 witness: a report over 100 rows or more, so that every cutoff selects
\* at least one row; the first tap point has identical signals and the
\* second has not, and disagrees.
C8_Witness ==
    /\ evalPc = "done"
    /\ Len(evalActivations[1]) >= 100
    /\ evalActivations[1] = evalPredictions[1]
    /\ \A c \in 1 .. Len(Cutoffs) : evalReport[1][c].tp >= 1
    /\ evalActivations[2] # evalPredictions[2]
    /\ evalReport[2][1].fp > 0

\* C14: at every tap point, with concatenated signals of shape (n, C), and
\* at every cutoff, the four counts are non-negative and add up to n * C,
\* and fp = fn: the activation mask and the prediction mask both hold
\* C * int(cutoff * n) ones (tp + fn and tp + fp).  So for n * C > 0 the four
\* printed quotients, which share the divisor total_samples = n * C, add up
\* to 1.
C14_CountsBalance ==
    evalPc \in {"return", "done"} =>
        \A i \in 1 .. Len(evalReport) :
            \A c \in 1 .. Len(Cutoffs) :
                LET r == evalReport[i][c]
                    n == Len(evalActivations[i])
                    cols == NumCols(evalActivations[i])
                    total_samples == r.tn + r.fp + r.fn + r.tp
                IN  /\ Len(evalPredictions[i]) = n
                    /\ NumCols(evalPredictions[i]) = cols
                    /\ r.tn >= 0 /\ r.fp >= 0 /\ r.fn >= 0 /\ r.tp >= 0
                    /\ total_samples = n * cols
                    /\ n * cols > 0
                    /\ r.fp = r.fn
                    /\ r.tp + r.fn = cols * TopK(Cutoffs[c], n)
                    /\ r.tp + r.fp = cols * TopK(Cutoffs[c], n)

\* C14 witness: a report over 100 rows in which the second tap point (two
\* columns) has different signals, and at the 10% cutoff its masks agree on
\* some positions and disagree on others, as often one way as the other.
C14_Witness ==
    /\ evalPc = "done"
    /\ Len(evalActivations[2]) = 100
    /\ evalActivations[2] # evalPredictions[2]
    /\ evalReport[2][3].tp > 0
    /\ evalReport[2][3].fp > 0
    /\ evalReport[2][3].fn = evalReport[2][3].fp
    /\ evalReport[2][3].tn + 2 * evalReport[2][3].fp + evalReport[2][3].tp = 200

=============================================================================
